---- MODULE Spec2Model ----
(***************************************************************************)
(* grepr: a model of src/src/lib.rs (find_files, open, find_lines, run)    *)
(* and src/src/main.rs (main).                                             *)
(*                                                                         *)
(* Text that the program inspects character by character (the bytes of a  *)
(* source, a line buffer) is a sequence of one-character strings.  Text    *)
(* that the program only passes around or formats (paths, messages,        *)
(* printed lines) is a string; Str turns the former into the latter.       *)
(***************************************************************************)
EXTENDS Integers, Sequences, FiniteSets, TLC

VARIABLES
    \* ---- run / main ----
    config,          \* Config {pattern, files, recursive, count, invert_match}
    pc,              \* position in main/run
    entries,         \* run: `entries`, the Vec returned by find_files
    is_single_file,  \* run: `is_single_file`
    idx,             \* run: index of the entry the `for` loop is at
    matches,         \* run: `matches`, the Vec<String> returned by find_lines
    printed,         \* run: number of elements of `matches` already printed
    log,             \* everything emitted so far, in emission order
    exit_code,       \* process exit status: -1 while running
    stdin,           \* what is left to read on standard input
    \* ---- find_lines applied to drawn inputs ----
    stream,          \* the BufRead handed to find_lines
    lpattern,        \* the Regex handed to find_lines
    normal,          \* result of find_lines(stream, lpattern, false)
    inverted         \* result of find_lines(stream, lpattern, true)

runVars  == <<config, pc, entries, is_single_file, idx, matches, printed, log,
             exit_code, stdin>>
lineVars == <<stream, lpattern, normal, inverted>>
vars     == <<runVars, lineVars>>

(***************************************************************************)
(* Bounds                                                                  *)
(***************************************************************************)
MaxPaths == 2      \* longest list of path arguments drawn
MaxLen   == 4      \* longest stream drawn for find_lines
MaxBad   == 2      \* latest call of read_line that fails in a drawn stream

(***************************************************************************)
(* Characters and strings                                                  *)
(***************************************************************************)
Whitespace == {" ", "\t", "\n", "\r"}

\* char::to_lowercase on the letters the model uses (case_insensitive(true))
Lower(c) ==
    CASE c = "O" -> "o"
      [] c = "R" -> "r"
      [] OTHER   -> c

RECURSIVE Str(_)
\* the String holding the characters of s
Str(s) == IF s = <<>> THEN "" ELSE Head(s) \o Str(Tail(s))

RECURSIVE TrimStart(_)
TrimStart(s) ==
    IF s # <<>> /\ Head(s) \in Whitespace THEN TrimStart(Tail(s)) ELSE s

RECURSIVE TrimEnd(_)
TrimEnd(s) ==
    IF s # <<>> /\ s[Len(s)] \in Whitespace
    THEN TrimEnd(SubSeq(s, 1, Len(s) - 1))
    ELSE s

\* str::trim: leading and trailing whitespace removed
Trim(s) == TrimEnd(TrimStart(s))

(***************************************************************************)
(* Regex: a literal, optionally case-insensitive, optionally anchored at   *)
(* the end of the haystack by a final `$` (no multi-line mode).            *)
(***************************************************************************)
Pat(lit, ci, eoh) == [valid |-> TRUE, lit |-> lit, ci |-> ci, eoh |-> eoh]

\* a pattern RegexBuilder::build rejects, e.g. "("
BadPattern == [valid |-> FALSE, lit |-> <<"(">>, ci |-> FALSE, eoh |-> FALSE]

CharEq(p, a, b) == IF p.ci THEN Lower(a) = Lower(b) ELSE a = b

\* Regex::is_match: the literal occurs somewhere in text
IsMatch(p, text) ==
    \E s \in 1..(Len(text) - Len(p.lit) + 1) :
        /\ \A j \in 1..Len(p.lit) : CharEq(p, text[s + j - 1], p.lit[j])
        /\ p.eoh => s + Len(p.lit) - 1 = Len(text)

(***************************************************************************)
(* find_lines                                                              *)
(***************************************************************************)
Ok(v)  == [ok |-> TRUE,  val |-> v]
Err(m) == [ok |-> FALSE, val |-> m]

ReadErrorMsg == "stream did not contain valid UTF-8"

\* A readable source: its bytes, and which call of read_line fails (0: none).
Source(data, bad) == [data |-> data, bad |-> bad]

RECURSIVE LineEnd(_, _)
\* BufRead::read_line from position pos: the position of the last character
\* appended to buf, which is the next "\n" or else the end of the data
LineEnd(data, pos) ==
    IF pos >= Len(data) \/ data[pos] = "\n" THEN pos ELSE LineEnd(data, pos + 1)

AcceptsInvertIgnored(pattern, buf, invert_match) == IsMatch(pattern, buf)

\* the condition of the `if` in the loop of find_lines
Accepts(pattern, buf, invert_match) == IsMatch(pattern, buf) = ~invert_match

ReadFailedBreaks(lines) == Ok(lines)

\* `file.read_line(&mut buf)?` on Err: find_lines returns the error, and
\* `lines` is dropped
ReadFailed(lines) == Err(ReadErrorMsg)

RECURSIVE FindLinesLoop(_, _, _, _, _, _)
FindLinesLoop(file, pos, calls, pattern, invert_match, lines) ==
    IF file.bad = calls + 1
    THEN ReadFailed(lines)
    ELSE IF pos > Len(file.data)
    THEN Ok(lines)                                \* bytes_read == 0: break
    ELSE LET e   == LineEnd(file.data, pos)
             buf == SubSeq(file.data, pos, e)
         IN  FindLinesLoop(file, e + 1, calls + 1, pattern, invert_match,
                 IF Accepts(pattern, buf, invert_match)
                 THEN Append(lines, buf)
                 ELSE lines)

FindLines(file, pattern, invert_match) ==
    FindLinesLoop(file, 1, 0, pattern, invert_match, <<>>)

(***************************************************************************)
(* The filesystem the program runs against.  A path that is not in the     *)
(* domain of FS does not exist.  Kinds: "file", "dir" (a directory that    *)
(* can be listed) and "denied" (a directory whose listing fails).          *)
(***************************************************************************)
Node(kind, names, openable, src) ==
    [kind |-> kind, names |-> names, openable |-> openable, src |-> src]

NoSource == Source(<<>>, 0)

FS ==
    ( "f.txt"          :> Node("file", <<>>, TRUE,
                               Source(<<"o", "r", "\n",
                                        " ", "o", "R", " ", "o", "r", " ", "\r", "\n",
                                        " ", "\n",
                                        "R", "o">>, 0))
   @@ "-"              :> Node("dir", <<>>, TRUE, NoSource)
   @@ "d"              :> Node("dir", <<"a.txt", "sub", "k.txt", "locked">>, TRUE, NoSource)
   @@ "d/k.txt"        :> Node("file", <<>>, FALSE, Source(<<"o", "r", "\n">>, 0))
   @@ "bad.txt"        :> Node("file", <<>>, TRUE,
                               Source(<<"o", "r", "\n", "o", "r", "\n">>, 2))
   @@ "d/a.txt"        :> Node("file", <<>>, TRUE,
                               Source(<<"O", "R", "\n", "o", "\n">>, 0))
   @@ "d/sub"          :> Node("dir", <<"b.txt">>, TRUE, NoSource)
   @@ "d/sub/b.txt"    :> Node("file", <<>>, TRUE,
                               Source(<<"r", "o", "\n", " ", "O", "r", "\n">>, 0))
   @@ "d/locked"       :> Node("denied", <<"c.txt">>, TRUE, NoSource)
   @@ "d/locked/c.txt" :> Node("file", <<>>, TRUE, Source(<<"o", "r", "\n">>, 0)) )

\* what standard input holds when the program starts
Stdin == Source(<<"\t", "o", "r", "\n", "r", "o", "\n">>, 0)

Exists(path) == path \in DOMAIN FS

\* fs::metadata(path)?.is_dir(), and walkdir's DirEntry::file_type().is_dir()
IsDir(path) == FS[path].kind \in {"dir", "denied"}

NotFound == "No such file or directory (os error 2)"
Denied   == "Permission denied (os error 13)"

\* Display of a walkdir::Error
WalkError(path, cause) == "IO error for operation on " \o path \o ": " \o cause

(***************************************************************************)
(* find_files                                                              *)
(***************************************************************************)
KeepEntryAlways(path) == <<Ok(path)>>

\* the closure given to filter_map for an entry WalkDir yields successfully:
\* a directory is dropped, anything else is kept
KeepEntry(path) == IF IsDir(path) THEN <<>> ELSE <<Ok(path)>>

RECURSIVE Walk(_)
RECURSIVE WalkChildren(_, _, _)

\* WalkDir::new(path).into_iter(), filtered: depth-first, a directory before
\* its contents, one Err where a directory cannot be listed
Walk(path) ==
    IF ~Exists(path)
    THEN <<Err(WalkError(path, NotFound))>>
    ELSE KeepEntry(path) \o
         ( CASE FS[path].kind = "dir"    -> WalkChildren(path, FS[path].names, 1)
             [] FS[path].kind = "denied" -> <<Err(WalkError(path, Denied))>>
             [] OTHER                    -> <<>> )

WalkChildren(path, names, n) ==
    IF n > Len(names)
    THEN <<>>
    ELSE Walk(path \o "/" \o names[n]) \o WalkChildren(path, names, n + 1)

ResolveFlatProbingSentinel(path) ==
    IF ~Exists(path) THEN Err(NotFound)
    ELSE IF IsDir(path) THEN Err(path \o " is a directory")
    ELSE Ok(path)

\* the closure given to map when recursive is false
ResolveFlat(path) ==
    IF path # "-"
    THEN IF ~Exists(path) THEN Err(NotFound)             \* metadata(path)?
         ELSE IF IsDir(path) THEN Err(path \o " is a directory")
         ELSE Ok(path)
    ELSE Ok(path)

\* the closure given to flat_map when recursive is true
ResolveDeep(path) == IF path = "-" THEN <<Ok("-")>> ELSE Walk(path)

RECURSIVE FlatMapDeep(_)
FlatMapDeep(paths) ==
    IF paths = <<>> THEN <<>>
    ELSE ResolveDeep(Head(paths)) \o FlatMapDeep(Tail(paths))

FindFilesDroppingErrors(paths, recursive) ==
    IF recursive
    THEN FlatMapDeep(paths)
    ELSE SelectSeq([n \in 1..Len(paths) |-> ResolveFlat(paths[n])],
                   LAMBDA e : e.ok)

FindFiles(paths, recursive) ==
    IF recursive
    THEN FlatMapDeep(paths)
    ELSE [n \in 1..Len(paths) |-> ResolveFlat(paths[n])]

(***************************************************************************)
(* open                                                                    *)
(***************************************************************************)
Open(filename) ==
    IF filename = "-" THEN Ok(stdin)
    ELSE IF ~Exists(filename) THEN Err(NotFound)
    ELSE IF ~FS[filename].openable THEN Err(Denied)
    ELSE IF IsDir(filename) THEN Ok(Source(<<>>, 1))   \* opens, cannot be read
    ELSE Ok(FS[filename].src)

(***************************************************************************)
(* Inputs                                                                  *)
(***************************************************************************)
SeqsUpTo(S, n) == UNION {[1..m -> S] : m \in 0..n}

\* the path arguments a command line is drawn from; "nope" does not exist
ArgPaths == {"-", "f.txt", "bad.txt", "d/k.txt", "d", "nope"}

\* "or", and "or" with --insensitive
RunPatterns == {Pat(<<"o", "r">>, FALSE, FALSE), Pat(<<"o", "r">>, TRUE, FALSE)}

Configs ==
    [pattern      : RunPatterns \cup {BadPattern},
     files        : SeqsUpTo(ArgPaths, MaxPaths) \ {<<>>},
     recursive    : BOOLEAN,
     count        : BOOLEAN,
     invert_match : BOOLEAN]

IdleConfig ==
    [pattern |-> BadPattern, files |-> <<"-">>, recursive |-> FALSE,
     count |-> FALSE, invert_match |-> FALSE]

\* "or", "(?i)or", "or$", "r\n", and the empty pattern
LinePatterns ==
    {Pat(<<"o", "r">>, FALSE, FALSE), Pat(<<"o", "r">>, TRUE, FALSE),
     Pat(<<"o", "r">>, FALSE, TRUE),  Pat(<<"r", "\n">>, FALSE, FALSE),
     Pat(<<>>, FALSE, FALSE)}

LineAlphabet == {"o", "r", "R", "\n"}

(***************************************************************************)
(* main and run                                                            *)
(***************************************************************************)
\* One emission: chan is "out" (println!), "err" (eprintln!) or "open" (a
\* source was opened; nothing is written).  entry is the index of the entry
\* being processed (0: none), text is what is written, body is the value
\* formatted last into text.
Event(chan, entry, text, body) ==
    [chan |-> chan, entry |-> entry, text |-> text, body |-> body]

InitRun ==
    /\ config \in Configs
    /\ pc = "args"
    /\ entries = <<>>
    /\ is_single_file = FALSE
    /\ idx = 0
    /\ matches = <<>>
    /\ printed = 0
    /\ log = <<>>
    /\ exit_code = -1
    /\ stdin = Stdin

IdleRun ==
    /\ config = IdleConfig
    /\ pc = "idle"
    /\ entries = <<>>
    /\ is_single_file = FALSE
    /\ idx = 0
    /\ matches = <<>>
    /\ printed = 0
    /\ log = <<>>
    /\ exit_code = -1
    /\ stdin = Stdin

\* main: get_args() is Err, so and_then skips run; the error is printed and
\* the process exits with 1
GetArgsFail ==
    /\ pc = "args"
    /\ ~config.pattern.valid
    /\ log' = Append(log, Event("err", 0,
                 "Invalid pattern \"" \o Str(config.pattern.lit) \o "\"", ""))
    /\ exit_code' = 1
    /\ pc' = "exit"
    /\ UNCHANGED <<config, entries, is_single_file, idx, matches, printed, stdin>>

\* main: get_args() is Ok(config), and_then calls run(config)
GetArgsOk ==
    /\ pc = "args"
    /\ config.pattern.valid
    /\ pc' = "run"
    /\ UNCHANGED <<config, entries, is_single_file, idx, matches, printed, log, exit_code, stdin>>

IsSingleFileCountingOk(es) == Len(SelectSeq(es, LAMBDA e : e.ok)) = 1

\* run: entries.len() == 1
IsSingleFile(es) == Len(es) = 1

\* run: the two `let`s before the loop
Resolve ==
    /\ pc = "run"
    /\ entries' = FindFiles(config.files, config.recursive)
    /\ is_single_file' = IsSingleFile(entries')
    /\ idx' = 1
    /\ pc' = "loop"
    /\ UNCHANGED <<config, matches, printed, log, exit_code, stdin>>

AtEntry == pc = "loop" /\ idx <= Len(entries)

NextEntry == idx' = idx + 1 /\ pc' = "loop"

EntryErrAborts ==
    /\ AtEntry
    /\ ~entries[idx].ok
    /\ log' = Append(log, Event("err", idx, entries[idx].val, ""))
    /\ exit_code' = 1
    /\ pc' = "exit"
    /\ UNCHANGED <<config, entries, is_single_file, idx, matches, printed, stdin>>

EntryErrToStdout ==
    /\ AtEntry
    /\ ~entries[idx].ok
    /\ log' = Append(log, Event("out", idx, entries[idx].val, entries[idx].val))
    /\ NextEntry
    /\ UNCHANGED <<config, entries, is_single_file, matches, printed, exit_code, stdin>>

\* run: Err(e) => eprintln!("{}", e)
EntryErr ==
    /\ AtEntry
    /\ ~entries[idx].ok
    /\ log' = Append(log, Event("err", idx, entries[idx].val, ""))
    /\ NextEntry
    /\ UNCHANGED <<config, entries, is_single_file, matches, printed, exit_code, stdin>>

\* run: Ok(filename) => match open(&filename) { Err(e) => eprintln!(..) }
OpenFail ==
    /\ AtEntry
    /\ entries[idx].ok
    /\ LET filename == entries[idx].val
           file     == Open(filename)
       IN  /\ ~file.ok
           /\ log' = Append(log, Event("err", idx,
                        filename \o ": " \o file.val, file.val))
    /\ NextEntry
    /\ UNCHANGED <<config, entries, is_single_file, matches, printed, exit_code, stdin>>

\* run: Ok(filename) => match open(&filename) { Ok(file) => .. }
OpenOk ==
    /\ AtEntry
    /\ entries[idx].ok
    /\ Open(entries[idx].val).ok
    /\ log' = Append(log, Event("open", idx, "", ""))
    /\ pc' = "opened"
    /\ UNCHANGED <<config, entries, is_single_file, idx, matches, printed, exit_code, stdin>>

\* the result of the call of find_lines in run
Scan == FindLines(Open(entries[idx].val).val, config.pattern, config.invert_match)

\* standard input once find_lines has read `filename`: the loop of find_lines
\* ends at end-of-stream (or at an error), so nothing is left of the source
AfterScan(filename) == IF filename = "-" THEN NoSource ELSE stdin

\* run: matches.is_err(): eprintln!, continue
ScanFail ==
    /\ pc = "opened"
    /\ ~Scan.ok
    /\ log' = Append(log, Event("err", idx,
                 entries[idx].val \o ": " \o Scan.val, Scan.val))
    /\ stdin' = AfterScan(entries[idx].val)
    /\ NextEntry
    /\ UNCHANGED <<config, entries, is_single_file, matches, printed, exit_code>>

\* run: let matches = matches.unwrap()
ScanOk ==
    /\ pc = "opened"
    /\ Scan.ok
    /\ matches' = Scan.val
    /\ printed' = 0
    /\ pc' = "print"
    /\ stdin' = AfterScan(entries[idx].val)
    /\ UNCHANGED <<config, entries, is_single_file, idx, log, exit_code>>

\* run: the println! chosen by `is_single_file || filename.as_str() == "-"`
Render(filename, body) ==
    IF is_single_file \/ filename = "-"
    THEN body
    ELSE filename \o ": " \o body

\* run: if config.count { println!(.. matches.len()) }
PrintCount ==
    /\ pc = "print"
    /\ config.count
    /\ LET body == ToString(Len(matches))
       IN  log' = Append(log, Event("out", idx, Render(entries[idx].val, body), body))
    /\ NextEntry
    /\ UNCHANGED <<config, entries, is_single_file, matches, printed, exit_code, stdin>>

NextMatchFromEnd == matches[Len(matches) - printed]

\* run: the element `for s in matches` yields next
NextMatch == matches[printed + 1]

\* run: one iteration of `for s in matches`: let s = s.trim(); println!(..)
PrintLine ==
    /\ pc = "print"
    /\ ~config.count
    /\ printed < Len(matches)
    /\ LET s == Str(Trim(NextMatch))
       IN  log' = Append(log, Event("out", idx, Render(entries[idx].val, s), s))
    /\ printed' = printed + 1
    /\ UNCHANGED <<config, entries, is_single_file, idx, matches, pc, exit_code, stdin>>

\* run: `for s in matches` is exhausted
PrintDone ==
    /\ pc = "print"
    /\ ~config.count
    /\ printed = Len(matches)
    /\ NextEntry
    /\ UNCHANGED <<config, entries, is_single_file, matches, printed, log, exit_code, stdin>>

\* run: the loop over entries is exhausted, Ok(()) is returned; main: the
\* `if let Err(e)` does not match and the process exits with 0
RunReturns ==
    /\ pc = "loop"
    /\ idx > Len(entries)
    /\ exit_code' = 0
    /\ pc' = "exit"
    /\ UNCHANGED <<config, entries, is_single_file, idx, matches, printed, log, stdin>>

(***************************************************************************)
(* find_lines applied to every drawn stream, with and without inversion    *)
(***************************************************************************)
InitLines ==
    /\ stream \in {Source(d, b) : d \in SeqsUpTo(LineAlphabet, MaxLen), b \in 0..MaxBad}
    /\ lpattern \in LinePatterns
    /\ normal = <<>>
    /\ inverted = <<>>

IdleLines ==
    /\ stream = NoSource
    /\ lpattern = BadPattern
    /\ normal = <<>>
    /\ inverted = <<>>

ScanNormal ==
    /\ normal = <<>>
    /\ normal' = <<FindLines(stream, lpattern, FALSE)>>
    /\ UNCHANGED <<stream, lpattern, inverted>>

ScanInverted ==
    /\ inverted = <<>>
    /\ inverted' = <<FindLines(stream, lpattern, TRUE)>>
    /\ UNCHANGED <<stream, lpattern, normal>>

(***************************************************************************)
(* Specifications                                                          *)
(***************************************************************************)
Init == InitRun /\ IdleLines

Next ==
    \/ GetArgsFail /\ UNCHANGED lineVars
    \/ GetArgsOk /\ UNCHANGED lineVars
    \/ Resolve /\ UNCHANGED lineVars
    \/ EntryErr /\ UNCHANGED lineVars
    \/ OpenFail /\ UNCHANGED lineVars
    \/ OpenOk /\ UNCHANGED lineVars
    \/ ScanFail /\ UNCHANGED lineVars
    \/ ScanOk /\ UNCHANGED lineVars
    \/ PrintCount /\ UNCHANGED lineVars
    \/ PrintLine /\ UNCHANGED lineVars
    \/ PrintDone /\ UNCHANGED lineVars
    \/ RunReturns /\ UNCHANGED lineVars

Spec == Init /\ [][Next]_vars

InitL == IdleRun /\ InitLines

NextL ==
    \/ ScanNormal /\ UNCHANGED runVars
    \/ ScanInverted /\ UNCHANGED runVars

SpecLines == InitL /\ [][NextL]_vars

(***************************************************************************)
(* Vocabulary of the properties, stated without the program's own loops    *)
(***************************************************************************)
Range(q) == {q[n] : n \in DOMAIN q}

\* positions where a line of data ends: each "\n", and the last character
\* when it is not a "\n"
LineEnds(data) ==
    {n \in 1..Len(data) : data[n] = "\n" \/ n = Len(data)}

NumLines(data) == Cardinality(LineEnds(data))

\* the lines of data, terminators included, in stream order
LinesOf(data) ==
    LET E      == LineEnds(data)
        end(k) == CHOOSE e \in E : Cardinality({x \in E : x < e}) = k - 1
    IN  [k \in 1..Cardinality(E) |->
            SubSeq(data, IF k = 1 THEN 1 ELSE end(k - 1) + 1, end(k))]

\* the lines L of src with P.matches(L) # I
Expected(src, p, inv) ==
    SelectSeq(LinesOf(src.data), LAMBDA l : IsMatch(p, l) # inv)

\* some read of src fails before end-of-stream has been seen
ReadFails(src) == src.bad \in 1..(NumLines(src.data) + 1)

RECURSIVE StripTrailing(_)
\* s without its terminator and its trailing whitespace
StripTrailing(s) ==
    IF s # <<>> /\ s[Len(s)] \in Whitespace
    THEN StripTrailing(SubSeq(s, 1, Len(s) - 1))
    ELSE s

Resolved == pc \in {"loop", "opened", "print"} \/ (pc = "exit" /\ idx >= 1)

Finished == pc = "exit" /\ config.pattern.valid

\* entry n has been dealt with completely
Handled(n) == Resolved /\ (idx > n \/ pc = "exit")

Opens(filename) ==
    filename = "-" \/ (Exists(filename) /\ FS[filename].openable)

\* what entry n delivers when it is read: standard input is at its end once an
\* earlier entry has read it
SourceOf(n) ==
    IF entries[n].val # "-" THEN FS[entries[n].val].src
    ELSE IF \E m \in 1..(n - 1) : entries[m] = Ok("-") THEN Source(<<>>, 0)
    ELSE Stdin

Emitted(n, chan) == SelectSeq(log, LAMBDA e : e.entry = n /\ e.chan = chan)

\* entry n resolves, opens and scans without error
Succeeds(n) ==
    /\ entries[n].ok
    /\ Opens(entries[n].val)
    /\ ~ReadFails(SourceOf(n))

\* the bodies run is to print for entry n, in order
ExpectedBodies(n) ==
    LET acc == Expected(SourceOf(n), config.pattern, config.invert_match)
    IN  IF config.count
        THEN <<ToString(Len(acc))>>
        ELSE [k \in 1..Len(acc) |-> Str(Trim(acc[k]))]

Bodies(evs) == [k \in 1..Len(evs) |-> evs[k].body]

(***************************************************************************)
(* C1  find_lines accepts a line L, terminator included, iff               *)
(*     P.matches(L) # I; the scans with I = false and I = true partition   *)
(*     the lines of a source, and their counts sum to the number of lines. *)
(***************************************************************************)
\* C1: each scan returns exactly the lines whose match result differs from
\* the invert flag, and the two scans split the lines between them
C1_AcceptIffMatchDiffersFromInvert ==
    /\ (normal # <<>> /\ normal[1].ok) =>
           normal[1].val = Expected(stream, lpattern, FALSE)
    /\ (inverted # <<>> /\ inverted[1].ok) =>
           inverted[1].val = Expected(stream, lpattern, TRUE)
    /\ (normal # <<>> /\ inverted # <<>> /\ normal[1].ok /\ inverted[1].ok) =>
           /\ Len(normal[1].val) + Len(inverted[1].val) = NumLines(stream.data)
           /\ \A l \in Range(LinesOf(stream.data)) :
                  (l \in Range(normal[1].val)) # (l \in Range(inverted[1].val))

C1_Witness ==
    /\ lpattern = Pat(<<"r", "\n">>, FALSE, FALSE)
    /\ normal # <<>> /\ inverted # <<>>
    /\ normal[1].ok /\ inverted[1].ok
    /\ Len(normal[1].val) = 1 /\ Len(inverted[1].val) = 2

(***************************************************************************)
(* C2  With recursive = false, find_files returns one entry per input      *)
(*     path, in input order: Ok(path) for the sentinel and for an existing *)
(*     non-directory, an Err for a directory and for a path whose metadata *)
(*     probe fails.                                                        *)
(***************************************************************************)
\* C2: entry n is the resolution of path n, for every n
C2_FlatOneEntryPerPathInOrder ==
    (Resolved /\ ~config.recursive) =>
        /\ Len(entries) = Len(config.files)
        /\ \A n \in 1..Len(config.files) :
               LET path == config.files[n]
               IN  IF path = "-" \/ (Exists(path) /\ FS[path].kind = "file")
                   THEN n <= Len(entries) /\ entries[n] = Ok(path)
                   ELSE n <= Len(entries) /\ ~entries[n].ok

C2_Witness ==
    /\ Resolved /\ ~config.recursive
    /\ config.files = <<"nope", "f.txt">>
    /\ ~entries[1].ok /\ entries[2].ok

(***************************************************************************)
(* C3  With recursive = false, a directory resolves to the Err             *)
(*     "<path> is a directory", and the sentinel "-" resolves to Ok("-")   *)
(*     whether or not something named "-" exists (here: a directory).      *)
(***************************************************************************)
\* C3: a directory gives Err("<path> is a directory"), "-" gives Ok("-")
C3_DirectoryRejectedSentinelUnprobed ==
    (Resolved /\ ~config.recursive) =>
        \A n \in 1..Len(config.files) :
            LET path == config.files[n]
            IN  /\ n <= Len(entries)
                /\ path = "-" => entries[n] = Ok("-")
                /\ (path # "-" /\ Exists(path) /\ IsDir(path)) =>
                       entries[n] = Err(path \o " is a directory")

C3_Witness ==
    /\ Resolved /\ ~config.recursive
    /\ config.files = <<"-", "d">>
    /\ Exists("-") /\ IsDir("-")
    /\ entries = <<Ok("-"), Err("d is a directory")>>

(***************************************************************************)
(* C4  With recursive = true: the entries hold the regular files under     *)
(*     each root and never a directory, the sentinel yields just Ok("-"),  *)
(*     and the groups of the path arguments come in path-argument order.   *)
(***************************************************************************)
RECURSIVE Below(_, _)
\* path and everything located under it; only directories in `into` are
\* descended into
Below(path, into) ==
    IF ~Exists(path) THEN {}
    ELSE {path} \cup
         (IF FS[path].kind \in into
          THEN UNION {Below(path \o "/" \o nm, into) : nm \in Range(FS[path].names)}
          ELSE {})

\* the regular files located under root; when `reached`, only those a walk
\* from root gets to
FilesUnder(root, reached) ==
    {p \in Below(root, IF reached THEN {"dir"} ELSE {"dir", "denied"}) :
        FS[p].kind = "file"}

\* the places under root where the walk fails: a directory that cannot be
\* listed, or root itself when it does not exist
WalkFailures(root) ==
    IF ~Exists(root) THEN {root}
    ELSE {p \in Below(root, {"dir"}) : FS[p].kind = "denied"}

OkValues(es) == {e.val : e \in {x \in Range(es) : x.ok}}

\* es is the group of entries of the path argument `path`
GroupOf(path, es, reached) ==
    IF path = "-"
    THEN es = <<Ok("-")>>
    ELSE /\ OkValues(es) = FilesUnder(path, reached)
         /\ \A p \in OkValues(es) : ~IsDir(p)
         /\ Len(SelectSeq(es, LAMBDA e : e.ok)) = Cardinality(FilesUnder(path, reached))
         /\ reached =>
                Len(SelectSeq(es, LAMBDA e : ~e.ok)) = Cardinality(WalkFailures(path))

RECURSIVE Grouped(_, _, _)
\* es is the groups of the path arguments, in the order of the arguments
Grouped(paths, es, reached) ==
    IF paths = <<>>
    THEN es = <<>>
    ELSE \E c \in 0..Len(es) :
             /\ GroupOf(Head(paths), SubSeq(es, 1, c), reached)
             /\ Grouped(Tail(paths), SubSeq(es, c + 1, Len(es)), reached)

\* C4 as claimed: every regular file located under a root is among the entries
C4_AsClaimed ==
    (Resolved /\ config.recursive) => Grouped(config.files, entries, FALSE)

\* C4 as amended: every regular file under a root that the walk reaches
\* without a traversal error is among the entries, once per path argument it
\* lies under; each directory that cannot be listed and each root that does
\* not exist gives one Err entry in the group of its path argument
C4_EveryReachedFileNoDirectory ==
    (Resolved /\ config.recursive) => Grouped(config.files, entries, TRUE)

C4_Witness ==
    /\ Resolved /\ config.recursive
    /\ config.files = <<"d", "-">>
    /\ entries = <<Ok("d/a.txt"), Ok("d/sub/b.txt"), Ok("d/k.txt"),
                   Err(WalkError("d/locked", Denied)), Ok("-")>>

(***************************************************************************)
(* C5  is_single_file is computed once, before any source is opened, as    *)
(*     (number of resolved entries = 1), Err entries counted, and never    *)
(*     changes; what is printed for a source is bare iff that flag holds   *)
(*     or the filename is "-", and else is prefixed with "<filename>: ".   *)
(***************************************************************************)
C5_FlagAndPrefixNow ==
    Resolved =>
        /\ is_single_file = (Len(entries) = 1)
        /\ \A e \in Range(log) :
               e.chan = "out" =>
                   LET filename == entries[e.entry].val
                   IN  IF Len(entries) = 1 \/ filename = "-"
                       THEN e.text = e.body
                       ELSE e.text = filename \o ": " \o e.body

\* C5: at every moment from the resolution on, the flag is (number of entries
\* = 1) and everything printed so far is bare iff the flag holds or the
\* filename is "-"; a source is opened or printed only after the resolution;
\* and no step after the resolution changes the flag or the entries
C5_SingleSourceFlagFixedAndPrefix ==
    /\ [](C5_FlagAndPrefixNow
          /\ ((\E e \in Range(log) : e.chan \in {"open", "out"}) => Resolved))
    /\ [][Resolved => (is_single_file' = is_single_file /\ entries' = entries)]_vars

C5_Witness ==
    /\ Finished
    /\ Len(entries) = 2 /\ ~entries[1].ok /\ entries[2] = Ok("f.txt")
    /\ ~is_single_file
    /\ \E e \in Range(log) :
           e.chan = "out" /\ e.entry = 2 /\ e.text = "f.txt: " \o e.body

(***************************************************************************)
(* C6  Per-entry failures are isolated: a resolution error, an open        *)
(*     failure or a scan failure of an entry gives one error line and      *)
(*     nothing else, the run goes on to the end of the entries, and every  *)
(*     entry that resolves, opens and scans has its matches or its count   *)
(*     emitted.                                                            *)
(***************************************************************************)
\* C6: when run has returned, every entry has been passed, a failing entry
\* has one error line and no output, a succeeding entry has no error line and
\* its expected output; and run is never stuck before it returns
C6_FailuresIsolated ==
    /\ Finished =>
           /\ idx = Len(entries) + 1
           /\ \A n \in 1..Len(entries) :
                  IF Succeeds(n)
                  THEN /\ Emitted(n, "err") = <<>>
                       /\ Bodies(Emitted(n, "out")) = ExpectedBodies(n)
                  ELSE /\ Len(Emitted(n, "err")) = 1
                       /\ Emitted(n, "out") = <<>>
    /\ pc # "exit" => ENABLED Next

C6_Witness ==
    /\ Finished
    /\ config.files = <<"bad.txt", "d">> /\ config.recursive
    /\ entries[1].ok /\ ReadFails(SourceOf(1))
    /\ Succeeds(2) /\ Emitted(2, "out") # <<>>
    /\ Succeeds(3) /\ Emitted(3, "out") # <<>>
    /\ entries[4].ok /\ ~Opens(entries[4].val)
    /\ ~entries[5].ok

(***************************************************************************)
(* C7  An entry that is an error: its message goes to the error channel,   *)
(*     no output line is produced for it, the run goes on with the         *)
(*     remaining entries -- and the exit status is marked failed.          *)
(***************************************************************************)
ErrEntryReported(n) ==
    /\ Emitted(n, "err") = <<Event("err", n, entries[n].val, "")>>
    /\ Emitted(n, "out") = <<>>

\* C7 as claimed: the exit status is failed once an entry was an error
C7_AsClaimed ==
    /\ \A n \in 1..Len(entries) : (Handled(n) /\ ~entries[n].ok) => ErrEntryReported(n)
    /\ Finished => idx = Len(entries) + 1
    /\ (Finished /\ \E n \in 1..Len(entries) : ~entries[n].ok) => exit_code # 0

\* C7 as amended: run still returns Ok(()), and the exit status stays 0
C7_ErrEntryReportedExitUnchanged ==
    /\ \A n \in 1..Len(entries) : (Handled(n) /\ ~entries[n].ok) => ErrEntryReported(n)
    /\ Finished => (idx = Len(entries) + 1 /\ exit_code = 0)

C7_Witness ==
    /\ Finished
    /\ Len(entries) = 2 /\ entries[1] = Err(NotFound) /\ Succeeds(2)
    /\ Emitted(1, "err") # <<>> /\ Emitted(2, "out") # <<>>
    /\ exit_code = 0

(***************************************************************************)
(* C8  Emission follows the order of the entries without interleaving:     *)
(*     all that is emitted for entry i comes before entry j > i is opened, *)
(*     and the accepted lines of a source are printed in stream order.     *)
(***************************************************************************)
IsPrefix(a, b) == Len(a) <= Len(b) /\ a = SubSeq(b, 1, Len(a))

\* C8: entry indices never decrease along the emissions, an output follows
\* the open of its entry, and the bodies printed for an entry are a prefix of
\* its accepted lines in stream order
C8_EntryOrderNoInterleaving ==
    /\ \A a, b \in DOMAIN log : a < b => log[a].entry <= log[b].entry
    /\ \A b \in DOMAIN log :
           log[b].chan = "out" =>
               \E a \in 1..(b - 1) : log[a] = Event("open", log[b].entry, "", "")
    /\ Resolved =>
           \A n \in 1..Len(entries) :
               (entries[n].ok /\ Emitted(n, "out") # <<>>) =>
                   IsPrefix(Bodies(Emitted(n, "out")), ExpectedBodies(n))

C8_Witness ==
    /\ Finished /\ ~config.count
    /\ Len(entries) = 2
    /\ Len(Emitted(1, "out")) >= 2
    /\ Emitted(1, "out")[1].body # Emitted(1, "out")[2].body
    /\ Emitted(2, "out") # <<>>

(***************************************************************************)
(* C9  In line mode the text printed for an accepted line, after the       *)
(*     optional prefix, is that line without its terminator and its        *)
(*     trailing whitespace; matching sees the terminator.                  *)
(***************************************************************************)
\* C9 as claimed: each printed body is the accepted line without its
\* terminator and trailing whitespace, and nothing else removed
C9_AsClaimed ==
    (Resolved /\ ~config.count) =>
        \A n \in 1..Len(entries) :
            (entries[n].ok /\ Emitted(n, "out") # <<>>) =>
                LET acc == Expected(SourceOf(n), config.pattern,
                                    config.invert_match)
                IN  IsPrefix(Bodies(Emitted(n, "out")),
                             [k \in 1..Len(acc) |-> Str(StripTrailing(acc[k]))])

(***************************************************************************)
(* C10 A read failure inside a source: find_lines returns Err and the      *)
(*     lines accepted so far are dropped; run emits the one error line     *)
(*     "<filename>: <cause>", no output line and no count for that source, *)
(*     and goes on with the next entry.                                    *)
(***************************************************************************)
\* C10: an entry whose source fails to be read has exactly the error line
\* "<filename>: <cause>" and no output, and run passes every entry
C10_ReadFailureAllOrNothing ==
    /\ \A n \in 1..Len(entries) :
           (Handled(n) /\ entries[n].ok /\ Opens(entries[n].val)
                /\ ReadFails(SourceOf(n))) =>
               /\ Emitted(n, "err") =
                      <<Event("err", n, entries[n].val \o ": " \o ReadErrorMsg,
                              ReadErrorMsg)>>
               /\ Emitted(n, "out") = <<>>
    /\ Finished => idx = Len(entries) + 1

C10_Witness ==
    /\ Finished
    /\ config.pattern = Pat(<<"o", "r">>, FALSE, FALSE) /\ ~config.invert_match
    /\ entries = <<Ok("bad.txt"), Ok("f.txt")>>
    /\ IsMatch(config.pattern, LinesOf(FS["bad.txt"].src.data)[1])
    /\ Len(Emitted(1, "err")) = 1
    /\ Emitted(2, "out") # <<>>

====
